---- MODULE Spec2Model ----
(***************************************************************************)
(* Signal generation and single-position backtest of the algo trading      *)
(* system (strategy.py).                                                   *)
(*                                                                         *)
(* Numbers.  The simulator computes with IEEE-754 doubles taken from a     *)
(* DataFrame (numpy scalars: a division by zero yields inf or nan, it does *)
(* not raise).  A number is the record [n, d], d >= 0:                     *)
(*     d > 0          the rational n/d in lowest terms                     *)
(*     d = 0, n = 1   +inf        d = 0, n = -1   -inf                     *)
(*     d = 0, n = 0   nan                                                  *)
(* Finite values are exact: rounding of the binary format is not modelled. *)
(***************************************************************************)
EXTENDS Integers, Sequences, FiniteSets, TLC

VARIABLES strategy_type, df, pc, symbol, len_df, i, current_price, signal,
          date, position, entry_price, portfolio_value, trades, metrics

\* run_backtest and print_summary
VARIABLES history, symbols, stock_data, todo, fault, all_trades,
          all_performance, total_winning_trades, summary_results, alerts

run_vars == <<history, symbols, stock_data, todo, fault, all_trades,
              all_performance, total_winning_trades, summary_results, alerts>>

vars == <<strategy_type, df, pc, symbol, len_df, i, current_price, signal,
          date, position, entry_price, portfolio_value, trades, metrics, run_vars>>

-----------------------------------------------------------------------------
(* Bounds of the model *)

MaxBars == 4

MaxSnapBars == 1

MaxRunBars == 2

MaxSummaries == 2

MaxLiveBars == 2

(* Program constants *)

INITIAL_CAPITAL == 100000

-----------------------------------------------------------------------------
(* Floating-point numbers *)

AbsInt(x) == IF x < 0 THEN -x ELSE x

SignInt(x) == IF x > 0 THEN 1 ELSE IF x < 0 THEN -1 ELSE 0

RECURSIVE GCD(_, _)
GCD(a, b) == IF b = 0 THEN a ELSE GCD(b, a % b)

Norm(n, d) ==
    IF d = 0 THEN [n |-> SignInt(n), d |-> 0]
    ELSE LET g == GCD(AbsInt(n), d) IN [n |-> n \div g, d |-> d \div g]

Num(k) == [n |-> k, d |-> 1]

NaN == [n |-> 0, d |-> 0]

PosInf == [n |-> 1, d |-> 0]

NegInf == [n |-> -1, d |-> 0]

IsNaN(a) == a.d = 0 /\ a.n = 0

IsFinite(a) == a.d > 0

FMul(a, b) == Norm(a.n * b.n, a.d * b.d)

FRecip(b) == IF b.n < 0 THEN [n |-> -b.d, d |-> -b.n] ELSE [n |-> b.d, d |-> b.n]

FDiv(a, b) == FMul(a, FRecip(b))

FNeg(a) == [n |-> -a.n, d |-> a.d]

FAdd(a, b) ==
    IF IsNaN(a) \/ IsNaN(b) THEN NaN
    ELSE IF a.d = 0 /\ b.d = 0 THEN (IF a.n = b.n THEN a ELSE NaN)
    ELSE IF a.d = 0 THEN a
    ELSE IF b.d = 0 THEN b
    ELSE Norm(a.n * b.d + b.n * a.d, a.d * b.d)

FSub(a, b) == FAdd(a, FNeg(b))

\* a < b; false when either side is nan
FLt(a, b) ==
    /\ ~IsNaN(a)
    /\ ~IsNaN(b)
    /\ IF a.d > 0 /\ b.d > 0 THEN a.n * b.d < b.n * a.d
       ELSE IF a.d = 0 /\ b.d = 0 THEN a.n < b.n
       ELSE IF a.d = 0 THEN a.n < 0
       ELSE b.n > 0

FGt(a, b) == FLt(b, a)

\* a == 0
FIsZero(a) == a.d > 0 /\ a.n = 0

-----------------------------------------------------------------------------
(* Inputs *)

Symbols == {"RELIANCE.NS", "TCS.NS"}

Prices == {Num(0), Num(100), Num(110)}

Signals == {-1, 0, 1}

\* the dates of the rows of a frame passed to backtest_strategy; 0 is no date
Dates == {1, 2}

NoSummary == [kind |-> "pending", total_trades |-> 0, win_rate |-> Num(0),
              total_pnl |-> Num(0)]

\* no run of run_backtest is in progress
RunIdle ==
    /\ history = <<>>
    /\ symbols = <<>>
    /\ stock_data = <<>>
    /\ todo = <<>>
    /\ fault = "none"
    /\ all_trades = <<>>
    /\ all_performance = <<>>
    /\ total_winning_trades = 0
    /\ summary_results = NoSummary
    /\ alerts = <<>>

NoMetrics == [Symbol |-> "", Total_Trades |-> 0, Winning_Trades |-> 0,
              Win_Rate |-> Num(0), Total_PnL |-> Num(0),
              Final_Portfolio_Value |-> Num(0)]

-----------------------------------------------------------------------------
(* backtest_strategy *)

\* the two tests of the loop on the held quantity
IsFlat(pos) == FIsZero(pos)

IsLong(pos) == FGt(pos, Num(0))

BuyTrade(d, price, qty) ==
    [Date |-> d, Symbol |-> symbol, Action |-> "BUY", Price |-> price, Quantity |-> qty,
     Value |-> FMul(qty, price), PnL |-> NaN, PnL_pct |-> NaN]

SellTrade(d, price, qty, value, pnl, pnl_pct) ==
    [Date |-> d, Symbol |-> symbol, Action |-> "SELL", Price |-> price, Quantity |-> qty,
     Value |-> value, PnL |-> pnl, PnL_pct |-> pnl_pct]

\* the rows that iteration i of the loop can read: row i of the frame when the
\* frame is held in df, any row when the frame is an input read bar by bar
\* the frames of fetch_data are in the order of their dates, so row i of a
\* held frame carries the date i + 1
BarRows ==
    IF Len(df) = len_df
    THEN {[Date |-> i + 1, Close |-> df[i + 1].Close, Signal |-> df[i + 1].Signal]}
    ELSE [Date : Dates, Close : Prices, Signal : Signals]

\* the percentage taken on the exit price instead of the entry price
PnlPct_ByExitPrice(price, entry) == FMul(FDiv(FSub(price, entry), price), Num(100))

PnlPct(price, entry) == FMul(FDiv(FSub(price, entry), entry), Num(100))

\* a Buy that does not test the held quantity
BuyBar_NoFlatTest ==
    /\ pc = "loop"
    /\ i < len_df
    /\ \E row \in BarRows, price \in Prices :
        /\ row.Close = price
        /\ row.Signal = 1
        /\ current_price' = price
        /\ date' = row.Date
        /\ signal' = 1
        /\ position' = FDiv(portfolio_value, price)
        /\ entry_price' = price
        /\ portfolio_value' = Num(0)
        /\ trades' = Append(trades, BuyTrade(row.Date, price, FDiv(portfolio_value, price)))
    /\ i' = i + 1
    /\ UNCHANGED <<strategy_type, df, pc, symbol, len_df, metrics, run_vars>>

\* one iteration of the loop taking the first branch
BuyBar ==
    /\ pc = "loop"
    /\ i < len_df
    /\ \E row \in BarRows, price \in Prices :
        /\ row.Close = price
        /\ row.Signal = 1
        /\ current_price' = price
        /\ date' = row.Date
        /\ signal' = 1
        /\ IsFlat(position)
        /\ position' = FDiv(portfolio_value, price)
        /\ entry_price' = price
        /\ portfolio_value' = Num(0)
        /\ trades' = Append(trades, BuyTrade(row.Date, price, FDiv(portfolio_value, price)))
    /\ i' = i + 1
    /\ UNCHANGED <<strategy_type, df, pc, symbol, len_df, metrics, run_vars>>

\* a Sell that does not test the held quantity
SellBar_NoLongTest ==
    /\ pc = "loop"
    /\ i < len_df
    /\ \E row \in BarRows, price \in Prices :
        /\ row.Close = price
        /\ row.Signal = -1
        /\ current_price' = price
        /\ date' = row.Date
        /\ signal' = -1
        /\ portfolio_value' = FMul(position, price)
        /\ trades' = Append(trades,
                        SellTrade(row.Date, price, position, FMul(position, price),
                                  FMul(FSub(price, entry_price), position),
                                  PnlPct(price, entry_price)))
        /\ position' = Num(0)
        /\ entry_price' = Num(0)
    /\ i' = i + 1
    /\ UNCHANGED <<strategy_type, df, pc, symbol, len_df, metrics, run_vars>>

\* one iteration of the loop taking the elif branch
SellBar ==
    /\ pc = "loop"
    /\ i < len_df
    /\ \E row \in BarRows, price \in Prices :
        /\ row.Close = price
        /\ row.Signal = -1
        /\ current_price' = price
        /\ date' = row.Date
        /\ signal' = -1
        /\ IsLong(position)
        /\ portfolio_value' = FMul(position, price)
        /\ trades' = Append(trades,
                        SellTrade(row.Date, price, position, FMul(position, price),
                                  FMul(FSub(price, entry_price), position),
                                  PnlPct(price, entry_price)))
        /\ position' = Num(0)
        /\ entry_price' = Num(0)
    /\ i' = i + 1
    /\ UNCHANGED <<strategy_type, df, pc, symbol, len_df, metrics, run_vars>>

\* one iteration of the loop taking neither branch
IgnoreBar ==
    /\ pc = "loop"
    /\ i < len_df
    /\ \E row \in BarRows, price \in Prices, sig \in Signals :
        /\ row.Close = price
        /\ row.Signal = sig
        /\ current_price' = price
        /\ date' = row.Date
        /\ signal' = sig
        /\ ~(sig = 1 /\ IsFlat(position))
        /\ ~(sig = -1 /\ IsLong(position))
    /\ i' = i + 1
    /\ UNCHANGED <<strategy_type, df, pc, symbol, len_df, metrics,
                   position, entry_price, portfolio_value, trades, run_vars>>

SellIdx(ts) == {k \in 1..Len(ts) : ts[k].Action = "SELL"}

WinIdx(ts) == {k \in SellIdx(ts) : FGt(ts[k].PnL, Num(0))}

\* Series.sum(): nan entries are skipped
RECURSIVE SumPnL(_, _)
SumPnL(ts, k) ==
    IF k = 0 THEN Num(0)
    ELSE IF ts[k].Action = "SELL" /\ ~IsNaN(ts[k].PnL)
         THEN FAdd(SumPnL(ts, k - 1), ts[k].PnL)
         ELSE SumPnL(ts, k - 1)

\* the division is done whatever the number of trades
WinRate_NoGuard(winning, total) ==
    FMul(FDiv(Num(winning), Num(total)), Num(100))

WinRate(winning, total) ==
    IF total > 0 THEN FMul(FDiv(Num(winning), Num(total)), Num(100)) ELSE Num(0)

TotalPnL(ts) ==
    IF Len(ts) > 0 /\ SellIdx(ts) # {} THEN SumPnL(ts, Len(ts)) ELSE Num(0)

\* the cash is reported whatever it is
FinalValue_CashOnly(cash, total_pnl) == cash

\* without cash the initial capital is reported, the P&L left out
FinalValue_InitialOnly(cash, total_pnl) ==
    IF FGt(cash, Num(0)) THEN cash ELSE Num(INITIAL_CAPITAL)

FinalValue(cash, total_pnl) ==
    IF FGt(cash, Num(0)) THEN cash ELSE FAdd(Num(INITIAL_CAPITAL), total_pnl)

PerformanceMetrics(ts, cash) ==
    [Symbol |-> symbol,
     Total_Trades |-> Cardinality(SellIdx(ts)),
     Winning_Trades |-> Cardinality(WinIdx(ts)),
     Win_Rate |-> WinRate(Cardinality(WinIdx(ts)), Cardinality(SellIdx(ts))),
     Total_PnL |-> TotalPnL(ts),
     Final_Portfolio_Value |-> FinalValue(cash, TotalPnL(ts))]

\* after the loop: the metrics are computed and the function returns
Finish ==
    /\ pc = "loop"
    /\ i = len_df
    /\ metrics' = PerformanceMetrics(trades, portfolio_value)
    /\ pc' = "done"
    /\ UNCHANGED <<strategy_type, df, symbol, len_df, i, current_price, signal,
                   date, position, entry_price, portfolio_value, trades, run_vars>>

Init ==
    /\ strategy_type = "working_original"
    /\ df = <<>>
    /\ pc = "loop"
    /\ symbol \in Symbols
    /\ len_df \in 0..MaxBars
    /\ i = 0
    /\ current_price = Num(0)
    /\ signal = 0
    /\ date = 0
    /\ position = Num(0)
    /\ entry_price = Num(0)
    /\ portfolio_value = Num(INITIAL_CAPITAL)
    /\ trades = <<>>
    /\ metrics = NoMetrics
    /\ RunIdle

Next == BuyBar \/ SellBar \/ IgnoreBar \/ Finish

Spec == Init /\ [][Next]_vars

-----------------------------------------------------------------------------
(* Properties of backtest_strategy *)

BuyIdx(ts) == {k \in 1..Len(ts) : ts[k].Action = "BUY"}

NumBuys == Cardinality(BuyIdx(trades))

NumSells == Cardinality(SellIdx(trades))

\* a bar has just been processed by the step
BarStep == pc = "loop" /\ i' = i + 1

LastTrade == trades[Len(trades)]

\* C1: after each processed bar, the number of Buy trades minus the number of
\* Sell trades is 0 when the simulator is Flat and 1 when it is Long, it is
\* never 2 or more, and count(Sell) <= count(Buy).
C1_SinglePosition ==
    /\ IsFlat(position) => NumBuys - NumSells = 0
    /\ IsLong(position) => NumBuys - NumSells = 1
    /\ NumBuys - NumSells < 2
    /\ NumSells <= NumBuys

\* every Sell of the ledger directly follows a Buy of the same symbol whose
\* quantity is held, and the ledger starts with a Buy
LedgerSellsFollowBuys ==
    /\ trades # <<>> => trades[1].Action = "BUY"
    /\ \A k \in SellIdx(trades) :
          /\ k > 1
          /\ trades[k - 1].Action = "BUY"
          /\ trades[k - 1].Symbol = trades[k].Symbol
          /\ IsLong(trades[k - 1].Quantity)
          /\ trades[k].Quantity = trades[k - 1].Quantity

\* C2: every Sell trade is immediately preceded in the ledger by a Buy trade
\* of the same symbol whose position was still open, the first ledger entry
\* is a Buy, and a Sell signal received while Flat produces no trade.
C2_SellFollowsOpenBuy ==
    /\ [](LedgerSellsFollowBuys)
    /\ [][(BarStep /\ signal' = -1 /\ IsFlat(position)) => trades' = trades]_vars

\* a round trip was closed and a later Sell signal, at another price than the
\* closing one, arrived while Flat
C2_Witness ==
    /\ Len(trades) = 2
    /\ trades[2].Action = "SELL"
    /\ i = 3
    /\ signal = -1
    /\ IsFlat(position)
    /\ current_price # trades[2].Price

IgnoredSignal ==
    \/ signal' = 0
    \/ signal' = 1 /\ IsLong(position)
    \/ signal' = -1 /\ IsFlat(position)

SimulatorState == <<portfolio_value, position, entry_price, trades>>

\* C3: a bar whose signal is Hold, Buy while Long or Sell while Flat emits no
\* trade and leaves cash, quantity, entry_price and the ledger unchanged; the
\* state changes only on Buy-while-Flat and Sell-while-Long.
C3_IgnoredSignalsNoOp ==
    [][/\ (BarStep /\ IgnoredSignal) => UNCHANGED SimulatorState
       /\ (SimulatorState' # SimulatorState) =>
              \/ signal' = 1 /\ IsFlat(position)
              \/ signal' = -1 /\ IsLong(position)]_vars

\* a Buy signal at another price than the entry price arrived while Long
C3_Witness ==
    /\ pc = "loop"
    /\ i = 2
    /\ signal = 1
    /\ IsLong(position)
    /\ Len(trades) = 1
    /\ current_price # entry_price

\* C4: a Buy signal while Flat with cash c and price p sets quantity = c / p,
\* entry_price = p and cash = 0, makes the simulator Long and appends exactly
\* one Buy trade of quantity c / p whose value is the cash c.
C4_BuyTransition ==
    [][(BarStep /\ signal' = 1 /\ IsFlat(position)) =>
          /\ position' = FDiv(portfolio_value, current_price')
          /\ entry_price' = current_price'
          /\ portfolio_value' = Num(0)
          /\ IsLong(position')
          /\ Len(trades') = Len(trades) + 1
          /\ SubSeq(trades', 1, Len(trades)) = trades
          /\ trades'[Len(trades')].Action = "BUY"
          /\ trades'[Len(trades')].Quantity = FDiv(portfolio_value, current_price')
          /\ trades'[Len(trades')].Value = portfolio_value]_vars

\* C5: a Sell signal while Long with quantity q, entry price e and price p
\* sets cash = q * p, appends exactly one Sell trade with quantity q,
\* value q * p, pnl (p - e) * q and pnl_pct (p - e) / e * 100, and resets
\* quantity and entry_price to 0.
C5_SellTransition ==
    [][(BarStep /\ signal' = -1 /\ IsLong(position)) =>
          /\ portfolio_value' = FMul(position, current_price')
          /\ Len(trades') = Len(trades) + 1
          /\ SubSeq(trades', 1, Len(trades)) = trades
          /\ trades'[Len(trades')].Action = "SELL"
          /\ trades'[Len(trades')].Quantity = position
          /\ trades'[Len(trades')].Value = FMul(position, current_price')
          /\ trades'[Len(trades')].PnL =
                 FMul(FSub(current_price', entry_price), position)
          /\ trades'[Len(trades')].PnL_pct =
                 FMul(FDiv(FSub(current_price', entry_price), entry_price), Num(100))
          /\ (IsFinite(position) /\ ~FIsZero(entry_price)) =>
                 LET t == trades'[Len(trades')] IN
                 /\ IsFinite(t.PnL) /\ IsFinite(t.PnL_pct)
                 /\ t.PnL.n * position.d * entry_price.d * current_price'.d =
                       t.PnL.d * position.n *
                       (current_price'.n * entry_price.d - entry_price.n * current_price'.d)
                 /\ t.PnL_pct.n * entry_price.n * current_price'.d =
                       t.PnL_pct.d * 100 *
                       (current_price'.n * entry_price.d - entry_price.n * current_price'.d)
          /\ IsFlat(position')
          /\ position' = Num(0)
          /\ entry_price' = Num(0)]_vars

\* capital 100000 bought at 100 and sold at 110: quantity 1000, pnl 10000,
\* pnl_pct 10, cash 110000
C5_Witness ==
    /\ Len(trades) = 2
    /\ trades[1].Action = "BUY" /\ trades[1].Price = Num(100)
    /\ trades[2].Action = "SELL" /\ trades[2].Price = Num(110)
    /\ trades[2].Quantity = Num(1000)
    /\ trades[2].Value = Num(110000)
    /\ trades[2].PnL = Num(10000)
    /\ trades[2].PnL_pct = Num(10)
    /\ portfolio_value = Num(110000)
    /\ position = Num(0)
    /\ entry_price = Num(0)

\* C6: when a position was entered at price 0, the Sell that closes it
\* carries pnl_pct = 0 and no arithmetic of the round trip is undefined.
C6_ZeroEntryGuarded ==
    \A k \in SellIdx(trades) :
        (k > 1 /\ trades[k - 1].Price = Num(0)) =>
            /\ trades[k].PnL_pct = Num(0)
            /\ IsFinite(trades[k - 1].Quantity)
            /\ IsFinite(trades[k].PnL)

RECURSIVE SumAllPnL(_, _)
SumAllPnL(ts, k) ==
    IF k = 0 THEN Num(0)
    ELSE IF ts[k].Action = "SELL"
         THEN FAdd(SumAllPnL(ts, k - 1), ts[k].PnL)
         ELSE SumAllPnL(ts, k - 1)

\* C8: at the end of a run final_portfolio_value is the cash held if the
\* simulator is Flat, and initial_capital plus the sum of pnl of all Sell
\* trades if it is Long.
C8_FinalValue ==
    pc = "done" =>
        /\ IsFlat(position) => metrics.Final_Portfolio_Value = portfolio_value
        /\ IsLong(position) =>
               metrics.Final_Portfolio_Value =
                   FAdd(Num(INITIAL_CAPITAL), SumAllPnL(trades, Len(trades)))

-----------------------------------------------------------------------------
(* generate_signals *)

StrategyTypes ==
    {"assignment_compliant", "working_original", "balanced", "simple", "strict"}

\* the default of the strategy_type parameter
DefaultStrategyType == "working_original"

RSIValues ==
    {NaN} \cup {Num(v) : v \in {25, 30, 32, 35, 37, 40, 50, 60, 62, 65, 67, 70, 75}}

SMAValues == {NaN, Num(1), Num(2)}

\* the indicator columns of one bar, as computed by the ta library; the
\* windows are 14, 20 and 50 bars, so SMA_50 is defined only where SMA_20 is
\* and SMA_20 only where RSI is
Snapshots ==
    {r \in [RSI : RSIValues, SMA_20 : SMAValues, SMA_50 : SMAValues] :
        /\ IsFinite(r.SMA_50) => IsFinite(r.SMA_20)
        /\ IsFinite(r.SMA_20) => IsFinite(r.RSI)}

FLe(a, b) == FLt(a, b) \/ (~IsNaN(a) /\ a = b)

\* the thresholds compared with <= instead of <
buy_condition_NonStrict(st, row) ==
    IF st = "assignment_compliant"
    THEN FLe(row.RSI, Num(30)) /\ FGt(row.SMA_20, row.SMA_50)
    ELSE IF st = "working_original"
    THEN FLe(row.RSI, Num(40))
    ELSE IF st = "balanced"
    THEN FLe(row.RSI, Num(35)) /\ FGt(row.SMA_20, row.SMA_50)
    ELSE FLe(row.RSI, Num(40))

\* the else branch takes the thresholds of the first branch
buy_condition_DefaultStrict(st, row) ==
    IF st = "assignment_compliant"
    THEN FLt(row.RSI, Num(30)) /\ FGt(row.SMA_20, row.SMA_50)
    ELSE IF st = "working_original"
    THEN FLt(row.RSI, Num(40))
    ELSE IF st = "balanced"
    THEN FLt(row.RSI, Num(35)) /\ FGt(row.SMA_20, row.SMA_50)
    ELSE FLt(row.RSI, Num(30)) /\ FGt(row.SMA_20, row.SMA_50)

buy_condition(st, row) ==
    IF st = "assignment_compliant"
    THEN FLt(row.RSI, Num(30)) /\ FGt(row.SMA_20, row.SMA_50)
    ELSE IF st = "working_original"
    THEN FLt(row.RSI, Num(40))
    ELSE IF st = "balanced"
    THEN FLt(row.RSI, Num(35)) /\ FGt(row.SMA_20, row.SMA_50)
    ELSE FLt(row.RSI, Num(40))

\* the Sell thresholds of the first and third branch exchanged
sell_condition_Swapped(st, row) ==
    IF st = "assignment_compliant"
    THEN FGt(row.RSI, Num(65))
    ELSE IF st = "working_original"
    THEN FGt(row.RSI, Num(60))
    ELSE IF st = "balanced"
    THEN FGt(row.RSI, Num(70)) \/ FLt(row.SMA_20, row.SMA_50)
    ELSE FGt(row.RSI, Num(60))

\* the Sell threshold of the second branch below its Buy threshold
sell_condition_Overlapping(st, row) ==
    IF st = "assignment_compliant"
    THEN FGt(row.RSI, Num(70)) \/ FLt(row.SMA_20, row.SMA_50)
    ELSE IF st = "working_original"
    THEN FGt(row.RSI, Num(30))
    ELSE IF st = "balanced"
    THEN FGt(row.RSI, Num(65))
    ELSE FGt(row.RSI, Num(60))

sell_condition(st, row) ==
    IF st = "assignment_compliant"
    THEN FGt(row.RSI, Num(70)) \/ FLt(row.SMA_20, row.SMA_50)
    ELSE IF st = "working_original"
    THEN FGt(row.RSI, Num(60))
    ELSE IF st = "balanced"
    THEN FGt(row.RSI, Num(65))
    ELSE FGt(row.RSI, Num(60))

\* df.loc[mask, column] = v
LocAssign(col, mask, v) == [k \in DOMAIN col |-> IF mask[k] THEN v ELSE col[k]]

SignalColumn(st, rows) ==
    LET zero == [k \in DOMAIN rows |-> 0]
        buy  == [k \in DOMAIN rows |-> buy_condition(st, rows[k])]
        sell == [k \in DOMAIN rows |-> sell_condition(st, rows[k])]
    IN  LocAssign(LocAssign(zero, buy, 1), sell, -1)

\* Signal.replace({0: nan}).ffill().fillna(0)
RECURSIVE PositionAt(_, _)
PositionAt(sig, k) ==
    IF k = 0 THEN 0
    ELSE IF sig[k] # 0 THEN sig[k]
    ELSE PositionAt(sig, k - 1)

GenerateSignals ==
    /\ pc = "gen"
    /\ fault = "none"
    /\ LET sig == SignalColumn(strategy_type, df) IN
       df' = [k \in DOMAIN df |->
                [c \in DOMAIN df[k] \cup {"Signal", "Position"} |->
                    IF c = "Signal" THEN sig[k]
                    ELSE IF c = "Position" THEN PositionAt(sig, k)
                    ELSE df[k][c]]]
    /\ pc' = "signals"
    /\ UNCHANGED <<strategy_type, symbol, len_df, i, current_price, signal,
                   date, position, entry_price, portfolio_value, trades, metrics, run_vars>>

InitSignals ==
    /\ strategy_type \in StrategyTypes
    /\ df \in UNION {[1..k -> Snapshots] : k \in 0..MaxSnapBars}
    /\ pc = "gen"
    /\ symbol = "RELIANCE.NS"
    /\ len_df = Len(df)
    /\ i = 0
    /\ current_price = Num(0)
    /\ signal = 0
    /\ date = 0
    /\ position = Num(0)
    /\ entry_price = Num(0)
    /\ portfolio_value = Num(INITIAL_CAPITAL)
    /\ trades = <<>>
    /\ metrics = NoMetrics
    /\ RunIdle

NextSignals == GenerateSignals

SpecSignals == InitSignals /\ [][NextSignals]_vars

-----------------------------------------------------------------------------
(* Properties of generate_signals *)

Defined(row) == IsFinite(row.RSI) /\ IsFinite(row.SMA_20) /\ IsFinite(row.SMA_50)

\* the reference policy table, thresholds per variant: <<buy below, sell above>>
Thresholds ==
    [assignment_compliant |-> <<30, 70>>,
     working_original     |-> <<40, 60>>,
     balanced             |-> <<35, 65>>]

TableBuy(st, row) ==
    /\ row.RSI.n < Thresholds[st][1] * row.RSI.d
    /\ st \in {"assignment_compliant", "balanced"} =>
          row.SMA_20.n * row.SMA_50.d > row.SMA_50.n * row.SMA_20.d

TableSell(st, row) ==
    \/ row.RSI.n > Thresholds[st][2] * row.RSI.d
    \/ /\ st = "assignment_compliant"
       /\ row.SMA_20.n * row.SMA_50.d < row.SMA_50.n * row.SMA_20.d

\* C10: for every defined snapshot and each of the three variants the signal
\* is Buy iff the Buy condition of the policy table holds, Sell iff the Sell
\* condition holds (all comparisons strict), and Hold iff neither holds.
C10_SignalMatchesTable ==
    (pc = "signals" /\ strategy_type \in DOMAIN Thresholds) =>
        \A k \in DOMAIN df :
            Defined(df[k]) =>
                /\ df[k].Signal = 1 <=> TableBuy(strategy_type, df[k])
                /\ df[k].Signal = -1 <=> TableSell(strategy_type, df[k])
                /\ df[k].Signal = 0 <=>
                      ~TableBuy(strategy_type, df[k]) /\ ~TableSell(strategy_type, df[k])

\* a Strict Buy on a defined snapshot: RSI 25 and SMA20 above SMA50
C10_Witness ==
    /\ pc = "signals"
    /\ strategy_type = "assignment_compliant"
    /\ Len(df) = 1
    /\ Defined(df[1])
    /\ df[1].RSI = Num(25)
    /\ df[1].SMA_20 = Num(2)
    /\ df[1].SMA_50 = Num(1)
    /\ df[1].Signal = 1

\* the indicators the Buy and the Sell condition of a variant read
BuyDepends(st) ==
    IF st \in {"assignment_compliant", "balanced"}
    THEN {"RSI", "SMA_20", "SMA_50"} ELSE {"RSI"}

SellDepends(st) ==
    IF st = "assignment_compliant" THEN {"RSI", "SMA_20", "SMA_50"} ELSE {"RSI"}

SomeUndefined(row, cols) == \E c \in cols : ~IsFinite(row[c])

\* C11: when an indicator that a condition of the variant depends on is
\* undefined, that condition is false: the bar is not a Buy if the Buy
\* condition reads an undefined indicator, not a Sell if the Sell condition
\* does, and Hold if both do.
C11_UndefinedGivesHold ==
    pc = "signals" =>
        \A k \in DOMAIN df :
            /\ SomeUndefined(df[k], BuyDepends(strategy_type)) => df[k].Signal # 1
            /\ SomeUndefined(df[k], SellDepends(strategy_type)) => df[k].Signal # -1
            /\ (/\ SomeUndefined(df[k], BuyDepends(strategy_type))
                /\ SomeUndefined(df[k], SellDepends(strategy_type))) => df[k].Signal = 0

Recognized == {"assignment_compliant", "working_original", "balanced"}

\* the signal of the row is the one the policy table gives for the variant
\* that the code names st
RowMatches(st, row) ==
    Defined(row) =>
        /\ row.Signal = 1 <=> TableBuy(st, row)
        /\ row.Signal = -1 <=> TableSell(st, row)
        /\ row.Signal = 0 <=> ~TableBuy(st, row) /\ ~TableSell(st, row)

\* C12: for every selector string that is not a recognized variant name
\* generate_signals produces, for every bar, the signal of the Simple variant
\* (Buy iff RSI < 40, Sell iff RSI > 60), and Hold when RSI is undefined.
C12_UnknownFallsBackToSimple ==
    (pc = "signals" /\ strategy_type \notin Recognized) =>
        \A k \in DOMAIN df :
            /\ RowMatches("working_original", df[k])
            /\ ~IsFinite(df[k].RSI) => df[k].Signal = 0
            /\ IsFinite(df[k].RSI) =>
                  /\ df[k].Signal = 1 <=> df[k].RSI.n < 40 * df[k].RSI.d
                  /\ df[k].Signal = -1 <=> df[k].RSI.n > 60 * df[k].RSI.d

\* an unrecognized selector buys at RSI 37 in a downtrend, as Simple does
C12_Witness ==
    /\ pc = "signals"
    /\ strategy_type \notin Recognized
    /\ Len(df) = 1
    /\ df[1].RSI = Num(37)
    /\ df[1].SMA_20 = Num(1)
    /\ df[1].SMA_50 = Num(2)
    /\ df[1].Signal = 1

\* C13 as stated: the selector strict applies the Strict conditions, simple
\* the Simple conditions, balanced the Balanced conditions, and the default
\* selector the Simple conditions.
C13_SelectorsOriginal ==
    pc = "signals" =>
        \A k \in DOMAIN df :
            /\ strategy_type = "strict" => RowMatches("assignment_compliant", df[k])
            /\ strategy_type = "simple" => RowMatches("working_original", df[k])
            /\ strategy_type = "balanced" => RowMatches("balanced", df[k])
            /\ strategy_type = DefaultStrategyType => RowMatches("working_original", df[k])

\* C13 amended: the selector assignment_compliant applies the Strict
\* conditions, working_original the Simple conditions, balanced the Balanced
\* conditions and the default selector the Simple conditions; strict and
\* simple are not selectors of the code and apply the Simple conditions.
C13_Selectors ==
    pc = "signals" =>
        \A k \in DOMAIN df :
            /\ strategy_type = "assignment_compliant" =>
                  RowMatches("assignment_compliant", df[k])
            /\ strategy_type = "working_original" => RowMatches("working_original", df[k])
            /\ strategy_type = "balanced" => RowMatches("balanced", df[k])
            /\ strategy_type = DefaultStrategyType => RowMatches("working_original", df[k])
            /\ strategy_type \in {"strict", "simple"} =>
                  RowMatches("working_original", df[k])

\* the selector strict sells at RSI 62 in an uptrend, which only Simple does
C13_Witness ==
    /\ pc = "signals"
    /\ strategy_type = "strict"
    /\ Len(df) = 1
    /\ df[1].RSI = Num(62)
    /\ df[1].SMA_20 = Num(2)
    /\ df[1].SMA_50 = Num(1)
    /\ df[1].Signal = -1

-----------------------------------------------------------------------------
(* Properties of the summary of backtest_strategy *)

\* C14: total_trades is the number of Sell trades of the ledger,
\* winning_trades the number of Sell trades with pnl > 0 and total_pnl the sum
\* of pnl over the Sell trades.
C14_SummaryReducesLedger ==
    pc = "done" =>
        /\ metrics.Total_Trades = NumSells
        /\ metrics.Winning_Trades =
              Cardinality({k \in 1..Len(trades) :
                              trades[k].Action = "SELL" /\ trades[k].PnL.n > 0})
        /\ metrics.Total_PnL = SumAllPnL(trades, Len(trades))

-----------------------------------------------------------------------------
\* run_backtest: fetch_data, the loop over the symbols, print_summary

\* the bars yfinance returns for a short period: Close and the RSI that
\* generate_signals computes from it; both averages are still warming up
RunRows ==
    {[Close |-> Num(c), RSI |-> Num(r), SMA_20 |-> NaN, SMA_50 |-> NaN] :
        c \in {100, 110}, r \in {37, 62}}

\* what the bar data of a symbol does to the steps that read it: nothing,
\* an exception inside generate_signals only, or an exception inside
\* generate_signals and inside prepare_features (malformed Close values)
Faults == {"none", "signals", "features"}

Histories ==
    {[bars |-> <<>>, fault |-> "none"]} \cup
    {[bars |-> b, fault |-> f] :
        b \in UNION {[1..k -> RunRows] : k \in 1..MaxRunBars}, f \in Faults}

\* the orders in which self.symbols can list the symbols
SymbolOrders ==
    {o \in [1..Cardinality(Symbols) -> Symbols] :
        \A a, b \in DOMAIN o : a # b => o[a] # o[b]}

RECURSIVE KeepFetched(_, _)
\* the symbols never dropped: an empty frame is stored like any other
KeepFetched_KeepEmpty(order, hist) ==
    order

\* data[symbol] = df unless df.empty, in the order of self.symbols
KeepFetched(order, hist) ==
    IF order = <<>> THEN <<>>
    ELSE IF hist[Head(order)].bars = <<>>
         THEN KeepFetched(Tail(order), hist)
         ELSE <<Head(order)>> \o KeepFetched(Tail(order), hist)

\* stock_data = self.data_fetcher.fetch_data(...); the keys in insertion order
FetchData ==
    /\ pc = "fetch"
    /\ stock_data' = KeepFetched(symbols, history)
    /\ todo' = stock_data'
    /\ all_trades' = <<>>
    /\ all_performance' = <<>>
    /\ pc' = "next_symbol"
    /\ UNCHANGED <<strategy_type, df, symbol, len_df, i, current_price, signal,
                   date, position, entry_price, portfolio_value, trades, metrics,
                   history, symbols, fault, total_winning_trades,
                   summary_results,
                   alerts>>

\* for symbol, df in stock_data.items()
StartSymbol ==
    /\ pc = "next_symbol"
    /\ todo # <<>>
    /\ symbol' = Head(todo)
    /\ df' = history[Head(todo)].bars
    /\ fault' = history[Head(todo)].fault
    /\ pc' = "gen"
    /\ UNCHANGED <<strategy_type, len_df, i, current_price, signal,
                   date, position, entry_price, portfolio_value, trades, metrics,
                   history, symbols, stock_data, todo, all_trades,
                   all_performance, total_winning_trades, summary_results,
                   alerts>>

\* generate_signals when its try block raises: Signal = 0 and Position = 0
GenerateSignalsFails ==
    /\ pc = "gen"
    /\ fault # "none"
    /\ df' = [k \in DOMAIN df |->
                [c \in DOMAIN df[k] \cup {"Signal", "Position"} |->
                    IF c \in {"Signal", "Position"} THEN 0 ELSE df[k][c]]]
    /\ pc' = "signals"
    /\ UNCHANGED <<strategy_type, symbol, len_df, i, current_price, signal,
                   date, position, entry_price, portfolio_value, trades, metrics, run_vars>>

\* the locals of the previous call are kept
EnterBacktest_NoReset ==
    /\ pc = "signals"
    /\ len_df' = Len(df)
    /\ i' = 0
    /\ pc' = "loop"
    /\ UNCHANGED <<strategy_type, df, symbol, current_price, signal, date, metrics,
                   position, entry_price, portfolio_value, trades, run_vars>>

\* backtest_strategy(df_with_signals, symbol): the locals before the loop
EnterBacktest ==
    /\ pc = "signals"
    /\ position' = Num(0)
    /\ entry_price' = Num(0)
    /\ trades' = <<>>
    /\ portfolio_value' = Num(INITIAL_CAPITAL)
    /\ len_df' = Len(df)
    /\ i' = 0
    /\ pc' = "loop"
    /\ date' = 0
    /\ UNCHANGED <<strategy_type, df, symbol, current_price, signal, metrics,
                   run_vars>>

\* get_latest_signals: the rows with a signal among the last 5 rows
LatestSignals(rows) ==
    SelectSeq(SubSeq(rows, IF Len(rows) > 5 THEN Len(rows) - 4 ELSE 1, Len(rows)),
              LAMBDA row : row.Signal # 0)

\* send_signal_alerts: one call of send_trade_alert for each of them
TradeAlerts(rows) ==
    [k \in DOMAIN rows |->
        [symbol |-> symbol,
         action |-> IF rows[k].Signal = 1 THEN "BUY" ELSE "SELL",
         price |-> rows[k].Close]]

\* the rest of the loop body: the results of the symbol are stored and the
\* alerts of its latest signals sent
StoreResults ==
    /\ pc = "done"
    /\ todo # <<>>
    /\ fault # "features"
    /\ all_trades' = all_trades \o trades
    /\ all_performance' = Append(all_performance, metrics)
    /\ alerts' = alerts \o TradeAlerts(LatestSignals(df))
    /\ todo' = Tail(todo)
    /\ pc' = "next_symbol"
    /\ UNCHANGED <<strategy_type, df, symbol, len_df, i, current_price, signal,
                   date, position, entry_price, portfolio_value, trades, metrics,
                   history, symbols, stock_data, fault, total_winning_trades,
                   summary_results>>

\* prepare_features raises: the except clause of run_backtest returns None
AbortRun ==
    /\ pc = "done"
    /\ todo # <<>>
    /\ fault = "features"
    /\ summary_results' = [NoSummary EXCEPT !.kind = "None"]
    /\ pc' = "returned"
    /\ UNCHANGED <<strategy_type, df, symbol, len_df, i, current_price, signal,
                   date, position, entry_price, portfolio_value, trades, metrics,
                   history, symbols, stock_data, todo, fault, all_trades,
                   all_performance, total_winning_trades,
                   alerts>>

RECURSIVE SumField(_, _)
\* total += performance[field], for the integer counts
SumField(perf, field) ==
    IF perf = <<>> THEN 0
    ELSE SumField(SubSeq(perf, 1, Len(perf) - 1), field) + perf[Len(perf)][field]

RECURSIVE SumTotalPnL(_)
\* total_pnl += pnl, from 0
SumTotalPnL(perf) ==
    IF perf = <<>> THEN Num(0)
    ELSE FAdd(SumTotalPnL(SubSeq(perf, 1, Len(perf) - 1)), perf[Len(perf)].Total_PnL)

RECURSIVE SumWinRates(_)
SumWinRates(perf) ==
    IF perf = <<>> THEN Num(0)
    ELSE FAdd(SumWinRates(SubSeq(perf, 1, Len(perf) - 1)), perf[Len(perf)].Win_Rate)

\* the mean of the per-symbol win rates
overall_win_rate_Mean(perf) ==
    IF Len(perf) > 0 THEN FDiv(SumWinRates(perf), Num(Len(perf))) ELSE Num(0)

\* (total_winning_trades / total_trades * 100) if total_trades > 0 else 0
overall_win_rate(perf) ==
    IF SumField(perf, "Total_Trades") > 0
    THEN FMul(FDiv(Num(SumField(perf, "Winning_Trades")),
                   Num(SumField(perf, "Total_Trades"))), Num(100))
    ELSE Num(0)

\* summary_results = self.print_summary(all_performance); return it
PrintSummary ==
    /\ pc = "next_symbol"
    /\ todo = <<>>
    /\ total_winning_trades' = SumField(all_performance, "Winning_Trades")
    /\ summary_results' =
           [kind |-> "dict",
            total_trades |-> SumField(all_performance, "Total_Trades"),
            win_rate |-> overall_win_rate(all_performance),
            total_pnl |-> SumTotalPnL(all_performance)]
    /\ pc' = "returned"
    /\ UNCHANGED <<strategy_type, df, symbol, len_df, i, current_price, signal,
                   date, position, entry_price, portfolio_value, trades, metrics,
                   history, symbols, stock_data, todo, fault, all_trades,
                   all_performance,
                   alerts>>

InitRun ==
    /\ strategy_type = DefaultStrategyType
    /\ history \in [Symbols -> Histories]
    /\ symbols \in SymbolOrders
    /\ pc = "fetch"
    /\ df = <<>>
    /\ symbol = "RELIANCE.NS"
    /\ len_df = 0
    /\ i = 0
    /\ current_price = Num(0)
    /\ signal = 0
    /\ date = 0
    /\ position = Num(0)
    /\ entry_price = Num(0)
    /\ portfolio_value = Num(INITIAL_CAPITAL)
    /\ trades = <<>>
    /\ metrics = NoMetrics
    /\ stock_data = <<>>
    /\ todo = <<>>
    /\ fault = "none"
    /\ all_trades = <<>>
    /\ all_performance = <<>>
    /\ total_winning_trades = 0
    /\ summary_results = NoSummary
    /\ alerts = <<>>

NextRun ==
    \/ FetchData
    \/ StartSymbol
    \/ GenerateSignals
    \/ GenerateSignalsFails
    \/ EnterBacktest
    \/ BuyBar
    \/ SellBar
    \/ IgnoreBar
    \/ Finish
    \/ StoreResults
    \/ AbortRun
    \/ PrintSummary

SpecRun == InitRun /\ [][NextRun]_vars

\* backtest_strategy called on a frame of its own or by run_backtest
InitCalls == Init \/ InitRun

NextCalls == Next \/ NextRun

SpecCalls == InitCalls /\ [][NextCalls]_vars

\* the per-symbol summaries print_summary can be given: the counts of a
\* ledger of at most MaxSummaryTrades Sell trades, the rate backtest_strategy
\* derives from them, and a total P&L
MaxSummaryTrades == 3

Summaries ==
    {[Symbol |-> "RELIANCE.NS", Total_Trades |-> t, Winning_Trades |-> w,
      Win_Rate |-> WinRate(w, t), Total_PnL |-> Num(p),
      Final_Portfolio_Value |-> Num(INITIAL_CAPITAL + p)] :
        t \in 0..MaxSummaryTrades, w \in 0..MaxSummaryTrades,
        p \in {-2500, 0, 10000}}

\* print_summary(all_performance) called on any list of summaries
InitSummary ==
    /\ all_performance \in
           UNION {[1..k -> {r \in Summaries : r.Winning_Trades <= r.Total_Trades}] :
                     k \in 0..MaxSummaries}
    /\ pc = "next_symbol"
    /\ strategy_type = DefaultStrategyType
    /\ df = <<>>
    /\ symbol = "RELIANCE.NS"
    /\ len_df = 0
    /\ i = 0
    /\ current_price = Num(0)
    /\ signal = 0
    /\ date = 0
    /\ position = Num(0)
    /\ entry_price = Num(0)
    /\ portfolio_value = Num(INITIAL_CAPITAL)
    /\ trades = <<>>
    /\ metrics = NoMetrics
    /\ history = <<>>
    /\ symbols = <<>>
    /\ stock_data = <<>>
    /\ todo = <<>>
    /\ fault = "none"
    /\ all_trades = <<>>
    /\ total_winning_trades = 0
    /\ summary_results = NoSummary
    /\ alerts = <<>>

NextSummary == PrintSummary

SpecSummary == InitSummary /\ [][NextSummary]_vars

-----------------------------------------------------------------------------
\* Properties of run_backtest and print_summary

\* the counts and the rate of one summary are consistent
RateBounded(winning, total, rate) ==
    /\ 0 <= winning
    /\ winning <= total
    /\ IsFinite(rate)
    /\ FLe(Num(0), rate)
    /\ FLe(rate, Num(100))
    /\ total = 0 => rate = Num(0)

\* C15: in every per-symbol summary and in the portfolio summary,
\* winning_trades <= total_trades and 0 <= win_rate <= 100, and
\* total_trades = 0 implies win_rate = 0 exactly.
C15_WinRateBounded ==
    /\ pc = "done" =>
           RateBounded(metrics.Winning_Trades, metrics.Total_Trades, metrics.Win_Rate)
    /\ \A k \in DOMAIN all_performance :
           RateBounded(all_performance[k].Winning_Trades,
                       all_performance[k].Total_Trades,
                       all_performance[k].Win_Rate)
    /\ summary_results.kind = "dict" =>
           RateBounded(total_winning_trades, summary_results.total_trades,
                       summary_results.win_rate)

\* a portfolio of one winning and one losing symbol: the rate is 50
C15_Witness ==
    /\ summary_results.kind = "dict"
    /\ summary_results.total_trades = 2
    /\ total_winning_trades = 1
    /\ summary_results.win_rate = Num(50)

RECURSIVE IntSum(_)
\* the sum of a sequence of integers
IntSum(q) == IF q = <<>> THEN 0 ELSE Head(q) + IntSum(Tail(q))

SummedTrades == IntSum([k \in DOMAIN all_performance |-> all_performance[k].Total_Trades])

SummedWinning == IntSum([k \in DOMAIN all_performance |-> all_performance[k].Winning_Trades])

SummedPnL == IntSum([k \in DOMAIN all_performance |-> all_performance[k].Total_PnL.n])

\* C16: the portfolio total_trades and winning trades are the sums of the
\* per-symbol counts, the portfolio win_rate is summed winning / summed total
\* x 100 (0 without trades), never the mean of the per-symbol rates, and the
\* portfolio total_pnl is the sum of the per-symbol total_pnl.
C16_PortfolioAggregation ==
    summary_results.kind = "dict" =>
        /\ summary_results.total_trades = SummedTrades
        /\ total_winning_trades = SummedWinning
        /\ summary_results.win_rate =
               (IF SummedTrades > 0
                THEN Norm(SummedWinning * 100, SummedTrades) ELSE Num(0))
        /\ summary_results.total_pnl = Num(SummedPnL)

\* (2 trades, 1 win) and (3 trades, 3 wins) give 80, not the mean 75
C16_Witness ==
    /\ summary_results.kind = "dict"
    /\ Len(all_performance) = 2
    /\ all_performance[1].Total_Trades = 2
    /\ all_performance[1].Winning_Trades = 1
    /\ all_performance[2].Total_Trades = 3
    /\ all_performance[2].Winning_Trades = 3
    /\ summary_results.win_rate = Num(80)

\* the symbols fetch_data returned
Fetched == {stock_data[k] : k \in DOMAIN stock_data}

\* the per-symbol results hold a summary of symbol s
Reported(s) == \E k \in DOMAIN all_performance : all_performance[k].Symbol = s

\* symbol s is reported with an empty ledger and a zero summary
ReportedEmpty(s) ==
    /\ \A k \in DOMAIN all_trades : all_trades[k].Symbol # s
    /\ \A k \in DOMAIN all_performance :
           all_performance[k].Symbol = s =>
               /\ all_performance[k].Total_Trades = 0
               /\ all_performance[k].Winning_Trades = 0
               /\ all_performance[k].Win_Rate = Num(0)
               /\ all_performance[k].Total_PnL = Num(0)

\* C17: when a per-symbol step fails for a symbol, the run still returns the
\* portfolio summary, every fetched symbol is processed and reported, and the
\* failing symbol is reported with an empty ledger and a zero result.
C17_FailuresIsolated ==
    pc = "returned" =>
        /\ summary_results.kind = "dict"
        /\ \A s \in Fetched : Reported(s)
        /\ \A s \in Fetched : history[s].fault # "none" => ReportedEmpty(s)

\* the symbols whose fetched history has zero bars
EmptySymbols == {s \in DOMAIN history : history[s].bars = <<>>}

\* backtest_strategy has returned from a frame of zero bars with an empty
\* ledger and a zero summary
EmptyFrameResult ==
    (pc = "done" /\ len_df = 0) =>
        /\ trades = <<>>
        /\ metrics.Total_Trades = 0
        /\ metrics.Winning_Trades = 0
        /\ metrics.Win_Rate = Num(0)
        /\ metrics.Total_PnL = Num(0)

\* C18 as stated: for a symbol with zero bars the core produces an empty
\* ledger and a zero summary, and that summary is part of the per-symbol
\* results of the run.
C18_EmptyInputOriginal ==
    /\ EmptyFrameResult
    /\ summary_results.kind = "dict" =>
           \A s \in EmptySymbols : Reported(s) /\ ReportedEmpty(s)

\* C18 amended: backtest_strategy on a frame of zero bars produces an empty
\* ledger and a zero summary; in run_backtest a symbol with zero bars is
\* dropped by fetch_data, so the per-symbol results of the run hold no trade
\* and no summary of it, and exactly the symbols with bars are reported.
C18_EmptyInput ==
    /\ EmptyFrameResult
    /\ pc \notin {"fetch"} =>
           /\ Fetched = DOMAIN history \ EmptySymbols
           /\ \A s \in EmptySymbols :
                  /\ ~Reported(s)
                  /\ \A k \in DOMAIN all_trades : all_trades[k].Symbol # s
    /\ summary_results.kind = "dict" =>
           \A s \in DOMAIN history \ EmptySymbols : Reported(s)

\* a run has returned its summary: one symbol had zero bars, the other
\* symbol is reported with its trades
C18_Witness ==
    /\ summary_results.kind = "dict"
    /\ EmptySymbols # {}
    /\ Len(all_performance) = 1
    /\ all_performance[1].Total_Trades = 1
    /\ all_performance[1].Symbol \notin EmptySymbols

-----------------------------------------------------------------------------
\* Properties of the order of the bars

\* C19: backtest_strategy never applies a bar whose date is earlier than or
\* equal to that of a bar it has already applied: a frame that is not
\* strictly ascending by date is rejected or sorted before the simulation.
C19_ChronologicalOrder ==
    [][(BarStep /\ i > 0) => date' > date]_vars

-----------------------------------------------------------------------------
\* Properties of the independence of the symbols

\* the Close and Signal columns of the signal-tagged bars of symbol s
TaggedBars(s) ==
    LET bars == history[s].bars
        sig  == IF history[s].fault = "none"
                THEN SignalColumn(strategy_type, bars)
                ELSE [k \in DOMAIN bars |-> 0]
    IN  [k \in DOMAIN bars |-> [Close |-> bars[k].Close, Signal |-> sig[k]]]

RECURSIVE Simulate(_, _, _)
\* the simulation of the first k bars of rows for symbol s, from Flat with
\* all of the initial capital in cash, as a function of rows alone
Simulate(s, rows, k) ==
    IF k = 0
    THEN [position |-> Num(0), entry_price |-> Num(0),
          cash |-> Num(INITIAL_CAPITAL), ledger |-> <<>>]
    ELSE LET st    == Simulate(s, rows, k - 1)
             price == rows[k].Close
         IN  IF rows[k].Signal = 1 /\ IsFlat(st.position)
             THEN [position |-> FDiv(st.cash, price), entry_price |-> price,
                   cash |-> Num(0),
                   ledger |-> Append(st.ledger,
                       [Date |-> k, Symbol |-> s, Action |-> "BUY", Price |-> price,
                        Quantity |-> FDiv(st.cash, price),
                        Value |-> FMul(FDiv(st.cash, price), price),
                        PnL |-> NaN, PnL_pct |-> NaN])]
             ELSE IF rows[k].Signal = -1 /\ IsLong(st.position)
             THEN [position |-> Num(0), entry_price |-> Num(0),
                   cash |-> FMul(st.position, price),
                   ledger |-> Append(st.ledger,
                       [Date |-> k, Symbol |-> s, Action |-> "SELL", Price |-> price,
                        Quantity |-> st.position,
                        Value |-> FMul(st.position, price),
                        PnL |-> FMul(FSub(price, st.entry_price), st.position),
                        PnL_pct |-> FMul(FDiv(FSub(price, st.entry_price),
                                              st.entry_price), Num(100))])]
             ELSE st

\* the ledger and the summary of symbol s computed from its own bars
OwnLedger(s) == Simulate(s, TaggedBars(s), Len(TaggedBars(s))).ledger

OwnSummary(s) ==
    LET end == Simulate(s, TaggedBars(s), Len(TaggedBars(s)))
    IN  [PerformanceMetrics(end.ledger, end.cash) EXCEPT !.Symbol = s]

\* the trades of symbol s in the trades of the run
TradesOf(s) == SelectSeq(all_trades, LAMBDA t : t.Symbol = s)

-----------------------------------------------------------------------------
\* Properties of the cash of backtest_strategy

\* every trade of the ledger was made at a strictly positive price
PositiveTradePrices ==
    \A k \in DOMAIN trades : FGt(trades[k].Price, Num(0))

\* initial_capital plus the sum of pnl of all Sell trades so far
CapitalPlusPnL == FAdd(Num(INITIAL_CAPITAL), SumAllPnL(trades, Len(trades)))

-----------------------------------------------------------------------------
\* Properties of the two conditions of generate_signals

\* every combination of the indicator values, consistent with the warm-up
\* windows or not
AllSnapshots == [RSI : RSIValues, SMA_20 : SMAValues, SMA_50 : SMAValues]

\* the signals when the Sell assignment is made before the Buy assignment
SignalColumnSellFirst(st, rows) ==
    LET zero == [k \in DOMAIN rows |-> 0]
        buy  == [k \in DOMAIN rows |-> buy_condition(st, rows[k])]
        sell == [k \in DOMAIN rows |-> sell_condition(st, rows[k])]
    IN  LocAssign(LocAssign(zero, sell, -1), buy, 1)

\* no selector and no combination of indicator values makes both conditions
\* true
NeverBothTrue ==
    \A st \in StrategyTypes, r \in AllSnapshots :
        ~(buy_condition(st, r) /\ sell_condition(st, r))

\* C22: for each variant and every snapshot, defined or undefined, the Buy
\* and the Sell condition are never both true on the same bar, so the second
\* assignment of generate_signals never turns a Buy into a Sell and the
\* signal does not depend on the order of the two assignments.
C22_ConditionsExclusive ==
    /\ NeverBothTrue
    /\ pc = "signals" =>
           \A k \in DOMAIN df :
               /\ buy_condition(strategy_type, df[k]) => df[k].Signal = 1
               /\ sell_condition(strategy_type, df[k]) => df[k].Signal = -1
               /\ df[k].Signal =
                      SignalColumnSellFirst(strategy_type,
                          [j \in DOMAIN df |->
                              [RSI |-> df[j].RSI, SMA_20 |-> df[j].SMA_20,
                               SMA_50 |-> df[j].SMA_50]])[k]

\* a Balanced Buy at RSI 32 in an uptrend stays a Buy after the Sell
\* assignment
C22_Witness ==
    /\ pc = "signals"
    /\ strategy_type = "balanced"
    /\ \E k \in DOMAIN df :
           /\ df[k].RSI = Num(32)
           /\ df[k].SMA_20 = Num(2)
           /\ df[k].SMA_50 = Num(1)
           /\ df[k].Signal = 1

-----------------------------------------------------------------------------
\* run_live_monitoring

\* the rows of a frame of get_latest_data with the indicators that
\* generate_signals computes from it
LiveRows ==
    {[Close |-> Num(100), RSI |-> NaN, SMA_20 |-> NaN, SMA_50 |-> NaN]} \cup
    {[Close |-> Num(100), RSI |-> Num(r), SMA_20 |-> m[1], SMA_50 |-> m[2]] :
        r \in {25, 37, 50, 62, 75},
        m \in {<<NaN, NaN>>, <<Num(2), NaN>>, <<Num(2), Num(1)>>, <<Num(1), Num(2)>>}}

LiveFrames == UNION {[1..k -> LiveRows] : k \in 1..MaxLiveBars}

\* latest_df = get_latest_data(symbol, period="1mo") is empty
LiveSkipEmpty ==
    /\ pc = "live_next"
    /\ todo # <<>>
    /\ symbol' = Head(todo)
    /\ df' = <<>>
    /\ todo' = Tail(todo)
    /\ UNCHANGED <<strategy_type, pc, len_df, i, current_price, signal, date,
                   position, entry_price, portfolio_value, trades, metrics,
                   history, symbols, stock_data, fault, all_trades,
                   all_performance, total_winning_trades, summary_results,
                   alerts>>

\* latest_df = get_latest_data(symbol, period="1mo") holds rows
LiveFetch ==
    /\ pc = "live_next"
    /\ todo # <<>>
    /\ symbol' = Head(todo)
    /\ \E frame \in LiveFrames : df' = frame
    /\ pc' = "live_gen"
    /\ UNCHANGED <<strategy_type, len_df, i, current_price, signal, date,
                   position, entry_price, portfolio_value, trades, metrics,
                   run_vars>>

\* df_with_signals = self.strategy.generate_signals(latest_df): the call
\* passes no strategy_type, the parameter takes its default
LiveGenerateSignals ==
    /\ pc = "live_gen"
    /\ LET sig == SignalColumn(DefaultStrategyType, df) IN
       df' = [k \in DOMAIN df |->
                [c \in DOMAIN df[k] \cup {"Signal", "Position"} |->
                    IF c = "Signal" THEN sig[k]
                    ELSE IF c = "Position" THEN PositionAt(sig, k)
                    ELSE df[k][c]]]
    /\ pc' = "live_check"
    /\ UNCHANGED <<strategy_type, symbol, len_df, i, current_price, signal, date,
                   position, entry_price, portfolio_value, trades, metrics,
                   run_vars>>

\* latest_signal = Signal.iloc[-1]; send_trade_alert when it is not 0; the
\* frame is not read again
LiveCheckSignal ==
    /\ pc = "live_check"
    /\ LET last == df[Len(df)] IN
       /\ signal' = last.Signal
       /\ IF last.Signal # 0
          THEN /\ current_price' = last.Close
               /\ alerts' = Append(alerts,
                      [symbol |-> symbol,
                       action |-> IF last.Signal = 1 THEN "BUY" ELSE "SELL",
                       price |-> last.Close])
          ELSE UNCHANGED <<current_price, alerts>>
    /\ df' = <<>>
    /\ todo' = Tail(todo)
    /\ pc' = "live_next"
    /\ UNCHANGED <<strategy_type, symbol, len_df, i, date,
                   position, entry_price, portfolio_value, trades, metrics,
                   history, symbols, stock_data, fault, all_trades,
                   all_performance, total_winning_trades, summary_results>>

\* the loop over STOCK_SYMBOLS has ended
LiveReturn ==
    /\ pc = "live_next"
    /\ todo = <<>>
    /\ pc' = "live_returned"
    /\ UNCHANGED <<strategy_type, df, symbol, len_df, i, current_price, signal,
                   date, position, entry_price, portfolio_value, trades, metrics,
                   run_vars>>

\* an AlgoTradingSystem constructed with any strategy_type starts
\* run_live_monitoring
InitLive ==
    /\ strategy_type \in StrategyTypes
    /\ todo \in SymbolOrders
    /\ pc = "live_next"
    /\ df = <<>>
    /\ symbol = "RELIANCE.NS"
    /\ len_df = 0
    /\ i = 0
    /\ current_price = Num(0)
    /\ signal = 0
    /\ date = 0
    /\ position = Num(0)
    /\ entry_price = Num(0)
    /\ portfolio_value = Num(INITIAL_CAPITAL)
    /\ trades = <<>>
    /\ metrics = NoMetrics
    /\ history = <<>>
    /\ symbols = <<>>
    /\ stock_data = <<>>
    /\ fault = "none"
    /\ all_trades = <<>>
    /\ all_performance = <<>>
    /\ total_winning_trades = 0
    /\ summary_results = NoSummary
    /\ alerts = <<>>

NextLive ==
    \/ LiveSkipEmpty
    \/ LiveFetch
    \/ LiveGenerateSignals
    \/ LiveCheckSignal
    \/ LiveReturn

SpecLive == InitLive /\ [][NextLive]_vars

-----------------------------------------------------------------------------
\* Properties of run_live_monitoring

\* the indicator columns of the frame held in df
Indicators ==
    [k \in DOMAIN df |->
        [RSI |-> df[k].RSI, SMA_20 |-> df[k].SMA_20, SMA_50 |-> df[k].SMA_50]]

\* the signal of the last bar of the frame under the variant of the system
LastSignalUnderV == SignalColumn(strategy_type, Indicators)[Len(df)]

\* C23: every call of generate_signals made by run_live_monitoring evaluates
\* the variant V the system was constructed with, so the alert for a symbol
\* is raised exactly when the signal of the last bar under V is Buy or Sell.
C23_SelectedStrategyUsed ==
    [][pc = "live_check" =>
          /\ \A k \in DOMAIN df :
                 df[k].Signal = SignalColumn(strategy_type, Indicators)[k]
          /\ LastSignalUnderV # 0 =>
                 /\ Len(alerts') = Len(alerts) + 1
                 /\ alerts'[Len(alerts')].symbol = symbol
                 /\ alerts'[Len(alerts')].action =
                        (IF LastSignalUnderV = 1 THEN "BUY" ELSE "SELL")
          /\ LastSignalUnderV = 0 => alerts' = alerts]_vars

====
